---- MODULE Spec2Model ----
(***************************************************************************)
(* Model of python/tpu_perf/io.py: the Datum and BlobProto codecs, the     *)
(* buffered LMDB writer LMDB_Dataset (put, _put_batch, _put, close) and    *)
(* the reader generator lmdb_data.                                         *)
(*                                                                         *)
(* Text is modelled as sequences of character codes, so that a key is the  *)
(* byte string LMDB compares.  An ndarray is a record of its dtype, shape  *)
(* and element values.  The capacity of the store (map_size) is counted in *)
(* records: a write of a new key raises MapFullError when the committed    *)
(* records plus the writes of the open transaction fill the map.           *)
(***************************************************************************)
EXTENDS Integers, Sequences, FiniteSets, TLC

(***************************************************************************)
(* Bounds of the model.                                                    *)
(***************************************************************************)
MaxCalls == 2    \* put calls in a writer's lifetime
MaxPut == 2      \* arrays supplied by one put call
MaxQueue == 3    \* largest queue_size a writer is constructed with
MaxMap == 2      \* largest initial map_size, in records
MaxCloses == 2   \* close() calls (explicit, __exit__, __del__)
MaxBlobs == 2    \* arrays in one BlobProtoVector

Min(a, b) == IF a < b THEN a ELSE b

(***************************************************************************)
(* dtype registry, io.py 35-47.                                            *)
(***************************************************************************)
dtype_dict ==
    [float32 |-> "FP32", float16 |-> "FP16", int8 |-> "INT8", uint8 |-> "UINT8",
     int16 |-> "INT16", uint16 |-> "UINT16", int32 |-> "INT32", uint32 |-> "UINT32"]

ufw_dtype == dtype_dict

np_dtype == [t \in {dtype_dict[k] : k \in DOMAIN dtype_dict} |->
                CHOOSE k \in DOMAIN dtype_dict : dtype_dict[k] = t]

(***************************************************************************)
(* arr.view(np.uint8).tostring() and np.fromstring(..).view(dtype): the    *)
(* little-endian two's complement bytes of integer elements.               *)
(***************************************************************************)
ItemSize(dt) ==
    CASE dt \in {"int8", "uint8"} -> 1
      [] dt \in {"int16", "uint16", "float16"} -> 2
      [] OTHER -> 4

IsSigned(dt) == dt \in {"int8", "int16", "int32"}

\* 256^w for the item sizes whose range is representable
Radix(w) == IF w = 1 THEN 256 ELSE 65536

ElemBytes(v, w) ==
    LET u == v % Radix(w)
    IN  [j \in 1..w |-> IF j = 1 THEN u % 256 ELSE u \div 256]

RECURSIVE ViewBytes(_, _)
ViewBytes(vals, w) ==
    IF vals = <<>> THEN <<>>
    ELSE ElemBytes(Head(vals), w) \o ViewBytes(Tail(vals), w)

BytesElem(bs, dt) ==
    LET w == Len(bs)
        u == IF w = 1 THEN bs[1] ELSE bs[1] + 256 * bs[2]
    IN  IF IsSigned(dt) /\ 2 * u >= Radix(w) THEN u - Radix(w) ELSE u

FromBytes(bytes, dt) ==
    LET w == ItemSize(dt)
    IN  [i \in 1..(Len(bytes) \div w) |->
            BytesElem(SubSeq(bytes, (i - 1) * w + 1, i * w), dt)]

(***************************************************************************)
(* Datum codec, io.py 95-123.  An optional field (label) is a sequence of  *)
(* at most one element.                                                    *)
(***************************************************************************)
array_to_datum(arr, label) ==
    [shape |-> arr.shape,
     float_data |-> IF arr.dtype = "float32" THEN arr.vals ELSE <<>>,
     data |-> IF arr.dtype = "float32" THEN <<>>
              ELSE ViewBytes(arr.vals, ItemSize(arr.dtype)),
     dtype |-> ufw_dtype[arr.dtype],
     label |-> label,
     channels |-> 0, height |-> 0, width |-> 0]

datum_to_array(datum) ==
    LET shape == IF datum.shape # <<>> THEN datum.shape
                 ELSE <<datum.channels, datum.height, datum.width>>
    IN  IF Len(datum.data) > 0
        THEN [dtype |-> np_dtype[datum.dtype], shape |-> shape,
              vals |-> FromBytes(datum.data, np_dtype[datum.dtype])]
        ELSE [dtype |-> "float32", shape |-> shape, vals |-> datum.float_data]

\* Datum.SerializeToString / Datum.ParseFromString
SerializeDatum(datum) == [pb |-> "Datum", msg |-> datum]

ParseDatum(str) == str.msg

(***************************************************************************)
(* Keys.  DB_KEY_FORMAT = "{:0>10d}__{:1}" (io.py 466): the decimal index  *)
(* right-aligned in ten zeros, two underscores, and the suffix formatted   *)
(* with minimum width 1, which pads the empty suffix to one space.         *)
(***************************************************************************)
RECURSIVE DecDigits(_)
DecDigits(i) ==
    IF i < 10 THEN <<48 + i>> ELSE DecDigits(i \div 10) \o <<48 + (i % 10)>>

PadLeft(s, w, c) == [j \in 1..(IF Len(s) < w THEN w - Len(s) ELSE 0) |-> c] \o s

PadRight(s, w, c) == s \o [j \in 1..(IF Len(s) < w THEN w - Len(s) ELSE 0) |-> c]

DB_KEY_FORMAT(i, k) == PadLeft(DecDigits(i), 10, 48) \o <<95, 95>> \o PadRight(k, 1, 32)

\* byte-wise (memcmp) order of LMDB keys
LexLess(a, b) ==
    \/ Len(a) < Len(b) /\ \A j \in 1..Len(a) : a[j] = b[j]
    \/ \E i \in 1..Min(Len(a), Len(b)) :
          a[i] < b[i] /\ \A j \in 1..(i - 1) : a[j] = b[j]

(***************************************************************************)
(* The LMDB environment as the writer uses it.  A transaction sees the     *)
(* committed records and its own writes.                                   *)
(***************************************************************************)
\* the key sorts after every key of the view (MDB_APPEND accepts it)
Appendable(view, key) == \A r \in view : LexLess(r.key, key)

\* txn.put(key, value, append=True) raises lmdb.MapFullError
MapFull(view, key, limit) == Appendable(view, key) /\ Cardinality(view) + 1 > limit

\* txn.put(key, value, append=True) that does not raise: a key that is not
\* greater than the last key is refused (put returns False) and nothing is written
TxnPut(view, writes, key, value) ==
    IF Appendable(view, key) THEN writes \cup {[key |-> key, value |-> value]}
    ELSE writes

\* txn.abort(): the writes of the transaction are discarded
TxnAbort(writes) == {}

\* txn.commit(): the writes of the transaction become visible
TxnCommit(committed, writes) == committed \cup writes

\* db.set_mapsize(curr_limit * 2), io.py 527-529
NewLimit(curr_limit) == curr_limit * 2

(***************************************************************************)
(* put, io.py 472-505.                                                     *)
(***************************************************************************)
\* labels of one accepted call, one optional label per zipped array, or the error
put_labels(num, labels) ==
    CASE labels.kind = "seq" ->
            IF Len(labels.val) < num THEN [err |-> "IndexError", labs |-> <<>>]
            ELSE [err |-> "none", labs |-> [i \in 1..num |-> <<labels.val[i]>>]]
      [] labels.kind = "None" -> [err |-> "none", labs |-> [i \in 1..num |-> <<>>]]
      [] OTHER -> [err |-> "none", labs |-> <<labels.val>>]

\* the nested put_datum (488-499): zip(arr, labels) stops at the shorter one
put_datum(arr, labels) ==
    LET l == put_labels(Len(arr), labels)
        m == Min(Len(arr), Len(l.labs))
    IN  IF l.err # "none" THEN [err |-> l.err, vals |-> <<>>]
        ELSE IF \E i \in 1..m : arr[i].dtype \notin DOMAIN ufw_dtype
        THEN [err |-> "KeyError", vals |-> <<>>]
        ELSE [err |-> "none",
              vals |-> [i \in 1..m |-> SerializeDatum(array_to_datum(arr[i], l.labs[i]))]]

\* keys as put normalises them (476-481)
put_keys(num, keys) ==
    CASE keys.kind = "None" -> [i \in 1..num |-> <<>>]
      [] OTHER -> keys.val

\* the keys put appends to key_list (483-486)
format_keys(idx, ks) == [i \in 1..Len(ks) |-> DB_KEY_FORMAT(idx + i - 1, ks[i])]

\* the flush test at the end of put (504)
queue_full(keys, limit) == Len(keys) >= limit

(***************************************************************************)
(* State.                                                                  *)
(***************************************************************************)
VARIABLES
    queue_size,   \* LMDB_Dataset.queue_size
    map_size,     \* db.info()['map_size'], in records
    index,        \* LMDB_Dataset.index
    key_list,     \* LMDB_Dataset.key_list
    value_list,   \* LMDB_Dataset.value_list
    store,        \* the committed records of the environment
    txn,          \* the writes of self.txn
    txn_live,     \* self.txn is an open transaction (not aborted)
    db_open,      \* self.db has not been closed
    pc,           \* where the writer is: idle, flush, grow, closed
    stack,        \* the running _put_batch calls: the lists each loop zips and its position
    caller,       \* the operation the outermost _put_batch returns to
    rd,           \* the lmdb_data generator
    bv,           \* one BlobProtoVector round trip
    calls,        \* history: put calls made
    closes,       \* history: close calls made
    last,         \* history: the last put call and its outcome
    failed,       \* history: some put call raised
    accepted,     \* history: the arrays of the put calls that returned normally
    assigned,     \* history: every key appended to key_list
    vkeys,        \* history: the key put built for each buffered value
    batch,        \* history: the lists the outermost _put_batch started with
    fulls,        \* history: MapFullErrors of that _put_batch
    batches       \* history: the batches of the _put_batch calls that returned

wvars == <<queue_size, map_size, index, key_list, value_list, store, txn, txn_live,
           db_open, pc, stack, caller>>

hvars == <<calls, closes, last, failed, accepted, assigned, vkeys, batch, fulls, batches>>

vars == <<wvars, hvars, rd, bv>>

(***************************************************************************)
(* The inputs of put.                                                      *)
(***************************************************************************)
A_f32 == [dtype |-> "float32", shape |-> <<2>>, vals |-> <<1, 2>>]

A_i16 == [dtype |-> "int16", shape |-> <<2>>, vals |-> <<-2, 300>>]

A_f64 == [dtype |-> "float64", shape |-> <<1>>, vals |-> <<5>>]

SeqsUpTo(S, n) == UNION {[1..m -> S] : m \in 0..n}

\* lists of registered arrays (float32 and int16 alternating), and the same
\* lists with one array of the unregistered dtype float64
GoodList(num) == [i \in 1..num |-> IF i % 2 = 1 THEN A_f32 ELSE A_i16]

ImagesArgs ==
    {GoodList(num) : num \in 0..MaxPut}
    \cup UNION {{[GoodList(num) EXCEPT ![j] = A_f64] : j \in 1..num} : num \in 1..MaxPut}

\* labels: None, one shared int, or a sequence of ints of any length near num
LabelsArgs(num) ==
    {[kind |-> "None", val |-> <<>>], [kind |-> "int", val |-> <<7>>]}
    \cup {[kind |-> "seq", val |-> [i \in 1..m |-> 9 + i]] :
            m \in {x \in {num - 1, num, num + 1} : x >= 0}}

\* keys: None, one str (put wraps it in a list), or a list of num suffixes
KeysArgs(num) ==
    {[kind |-> "None", val |-> <<>>], [kind |-> "str", val |-> << <<97>> >>],
     [kind |-> "list", val |-> [i \in 1..num |-> <<97>>]]}

NoBatch == [ks |-> <<>>, vs |-> <<>>]

NoCall == [num |-> 0, labels |-> [kind |-> "None", val |-> <<>>], err |-> "none"]

RdNew == [state |-> "new", handle |-> FALSE, snap |-> <<>>, pos |-> 0]

BvOff == [phase |-> "off", inp |-> <<>>,
          str |-> [err |-> "unset", blobs |-> <<>>],
          out |-> [err |-> "unset", arrs |-> <<>>]]

\* LMDB_Dataset.__init__ (458-470)
InitWriter ==
    /\ queue_size \in 1..MaxQueue
    /\ map_size \in 1..MaxMap
    /\ index = 0
    /\ key_list = <<>>
    /\ value_list = <<>>
    /\ store = {}
    /\ txn = {}
    /\ txn_live = TRUE
    /\ db_open = TRUE
    /\ pc = "idle"
    /\ stack = <<>>
    /\ caller = "none"
    /\ calls = 0
    /\ closes = 0
    /\ last = NoCall
    /\ failed = FALSE
    /\ accepted = <<>>
    /\ assigned = <<>>
    /\ vkeys = <<>>
    /\ batch = NoBatch
    /\ fulls = 0
    /\ batches = <<>>

Init == InitWriter /\ rd = RdNew /\ bv = BvOff

(***************************************************************************)
(* _put_batch, io.py 507-516, one loop iteration at a time.                *)
(***************************************************************************)
\* zip(self.key_list, self.value_list)
Zip(ks, vs) == [i \in 1..Min(Len(ks), Len(vs)) |-> [key |-> ks[i], value |-> vs[i]]]

\* a call of _put_batch: it returns at once on an empty key_list (508-509),
\* otherwise its loop starts over the lists as they are now (510)
EnterPutBatch(stk, ks, vs) ==
    IF Len(ks) = 0 THEN stk ELSE Append(stk, [ks |-> ks, vs |-> vs, i |-> 1])

\* a retry of the failing record alone
RetryFailedRecord(stk, ks, vs) ==
    LET f == stk[Len(stk)]
    IN  Append(stk, [ks |-> <<f.ks[f.i - 1]>>, vs |-> <<f.vs[f.i - 1]>>, i |-> 1])

\* what _put_batch does after a failed _put (511-512)
RetryBatch(stk, ks, vs) == EnterPutBatch(stk, ks, vs)

Top == stack[Len(stack)]

Advance(stk) == [stk EXCEPT ![Len(stk)].i = @ + 1]

Pop(stk) == SubSeq(stk, 1, Len(stk) - 1)

InLoop == pc = "flush" /\ Top.i <= Min(Len(Top.ks), Len(Top.vs))

\* put: everything up to the flush test
Put(images, labels, keys) ==
    /\ pc = "idle"
    /\ calls < MaxCalls
    /\ calls' = calls + 1
    /\ LET num == Len(images)
           ks == put_keys(num, keys)
           res == put_datum(images, labels)
           fkeys == format_keys(index, ks)
           shared == IF labels.kind = "int" THEN labels.val ELSE <<>>
           recs == [i \in 1..num |->
                      [arr |-> images[i], sfx |-> ks[i],
                       label |-> IF labels.kind = "seq" THEN <<labels.val[i]>> ELSE shared]]
       IN  IF num # Len(ks)
           THEN /\ last' = [num |-> num, labels |-> labels, err |-> "AssertionError"]
                /\ failed' = TRUE
                /\ UNCHANGED <<wvars, accepted, assigned, vkeys, batch, fulls, batches>>
           ELSE /\ key_list' = key_list \o fkeys
                /\ assigned' = assigned \o fkeys
                /\ last' = [num |-> num, labels |-> labels, err |-> res.err]
                /\ failed' = (failed \/ res.err # "none")
                /\ IF res.err # "none"
                   THEN UNCHANGED <<value_list, index, pc, stack, caller, accepted,
                                    vkeys, batch, fulls>>
                   ELSE /\ value_list' = value_list \o res.vals
                        /\ index' = index + num
                        /\ accepted' = accepted \o recs
                        /\ vkeys' = vkeys \o SubSeq(fkeys, 1, Len(res.vals))
                        /\ IF queue_full(key_list', queue_size)
                           THEN /\ pc' = "flush"
                                /\ caller' = "put"
                                /\ stack' = EnterPutBatch(stack, key_list', value_list')
                                /\ batch' = [ks |-> key_list', vs |-> value_list']
                                /\ fulls' = 0
                           ELSE UNCHANGED <<pc, stack, caller, batch, fulls>>
                /\ UNCHANGED <<queue_size, map_size, store, txn, txn_live, db_open, batches>>
    /\ UNCHANGED <<closes, rd, bv>>

PutCall ==
    \E images \in ImagesArgs :
        \E labels \in LabelsArgs(Len(images)), keys \in KeysArgs(Len(images)) :
            Put(images, labels, keys)

\* _put (518-524) when txn.put does not raise
PutWrite ==
    /\ InLoop
    /\ ~MapFull(store \cup txn, Top.ks[Top.i], map_size)
    /\ txn' = TxnPut(store \cup txn, txn, Top.ks[Top.i], Top.vs[Top.i])
    /\ stack' = Advance(stack)
    /\ UNCHANGED <<queue_size, map_size, index, key_list, value_list, store, txn_live,
                   db_open, pc, caller, hvars, rd, bv>>

\* _put (525-526): txn.put raises MapFullError and the transaction is aborted
PutFull ==
    /\ InLoop
    /\ MapFull(store \cup txn, Top.ks[Top.i], map_size)
    /\ txn' = TxnAbort(txn)
    /\ txn_live' = FALSE
    /\ pc' = "grow"
    /\ stack' = Advance(stack)
    /\ fulls' = fulls + 1
    /\ UNCHANGED <<queue_size, map_size, index, key_list, value_list, store, db_open,
                   caller, calls, closes, last, failed, accepted, assigned, vkeys,
                   batch, batches, rd, bv>>

\* _put (527-531) and the retry of _put_batch (511-512)
Grow ==
    /\ pc = "grow"
    /\ map_size' = NewLimit(map_size)
    /\ txn_live' = TRUE
    /\ stack' = RetryBatch(stack, key_list, value_list)
    /\ pc' = "flush"
    /\ UNCHANGED <<queue_size, index, key_list, value_list, store, txn, db_open,
                   caller, hvars, rd, bv>>

\* the end of a _put_batch call (513-516), and of close (541) when it returns there
Commit ==
    /\ pc = "flush"
    /\ ~InLoop
    /\ store' = TxnCommit(store, txn)
    /\ txn' = {}
    /\ value_list' = <<>>
    /\ key_list' = <<>>
    /\ vkeys' = <<>>
    /\ stack' = Pop(stack)
    /\ IF Len(stack) = 1
       THEN /\ pc' = IF caller = "close" THEN "closed" ELSE "idle"
            /\ db_open' = (caller # "close")
            /\ batches' = Append(batches, batch)
       ELSE UNCHANGED <<pc, db_open, batches>>
    /\ UNCHANGED <<queue_size, map_size, index, txn_live, caller, calls, closes, last,
                   failed, accepted, assigned, batch, fulls, rd, bv>>

\* close (539-541), also run by __exit__ (536-537) and __del__ (543-544)
Close ==
    /\ pc \in {"idle", "closed"}
    /\ closes < MaxCloses
    /\ closes' = closes + 1
    /\ IF Len(key_list) = 0
       THEN /\ db_open' = FALSE
            /\ pc' = "closed"
            /\ UNCHANGED <<stack, caller, batch, fulls>>
       ELSE /\ pc' = "flush"
            /\ caller' = "close"
            /\ stack' = EnterPutBatch(stack, key_list, value_list)
            /\ batch' = [ks |-> key_list, vs |-> value_list]
            /\ fulls' = 0
            /\ UNCHANGED db_open
    /\ UNCHANGED <<queue_size, map_size, index, key_list, value_list, store, txn,
                   txn_live, calls, last, failed, accepted, assigned, vkeys, batches,
                   rd, bv>>

(***************************************************************************)
(* lmdb_data, io.py 547-556: a generator over a read transaction.  It is   *)
(* run on the dataset the writer has closed.                               *)
(***************************************************************************)
\* iteration of a cursor: the records in key order
RECURSIVE CursorOrder(_)
CursorOrder(S) ==
    IF S = {} THEN <<>>
    ELSE LET r == CHOOSE x \in S : \A y \in S : ~LexLess(y.key, x.key)
         IN  <<r>> \o CursorOrder(S \ {r})

\* what the generator has yielded so far (555)
Yielded ==
    [i \in 1..rd.pos |->
        [key |-> rd.snap[i].key, arr |-> datum_to_array(ParseDatum(rd.snap[i].value))]]

\* next() on the generator: the first one opens the environment and the
\* transaction (548-551); one that finds the cursor exhausted leaves the with
\* block and runs db_raw.close() (556)
RdNext ==
    /\ pc = "closed"
    /\ rd.state \in {"new", "suspended"}
    /\ LET snap == IF rd.state = "new" THEN CursorOrder(store) ELSE rd.snap
       IN  IF rd.pos < Len(snap)
           THEN rd' = [state |-> "suspended", handle |-> TRUE, snap |-> snap,
                       pos |-> rd.pos + 1]
           ELSE rd' = [state |-> "exhausted", handle |-> FALSE, snap |-> snap,
                       pos |-> rd.pos]
    /\ UNCHANGED <<wvars, hvars, bv>>

\* the caller stops iterating: close() on the generator (or its collection)
\* raises GeneratorExit at the yield (555); the with block (550) ends the
\* transaction and the exception leaves the function before line 556
RdStop ==
    /\ pc = "closed"
    /\ rd.state \in {"new", "suspended"}
    /\ rd' = [rd EXCEPT !.state = "closed_early"]
    /\ UNCHANGED <<wvars, hvars, bv>>

Next == PutCall \/ PutWrite \/ PutFull \/ Grow \/ Commit \/ Close \/ RdNext \/ RdStop

Spec == Init /\ [][Next]_vars

\* a call that is running runs on: the program is sequential
WriterStep == PutWrite \/ PutFull \/ Grow \/ Commit

FairSpec == Spec /\ WF_vars(WriterStep)

(***************************************************************************)
(* BlobProto codec, io.py 15-32 and 50-92.  A float element is modelled by *)
(* an integer value that float16 and float32 both represent.               *)
(***************************************************************************)
RECURSIVE Prod(_)
Prod(dims) == IF dims = <<>> THEN 1 ELSE Head(dims) * Prod(Tail(dims))

EmptyBlob == [shape |-> <<>>, dtype |-> "unset", data |-> <<>>, int32_data |-> <<>>]

\* array_to_blobproto (50-75); the registry lookup (57) comes first
array_to_blobproto(arr) ==
    IF arr.dtype \notin DOMAIN ufw_dtype THEN [err |-> "KeyError", blob |-> EmptyBlob]
    ELSE IF arr.dtype \in {"float32", "float16", "float64"}
    THEN [err |-> "none",
          blob |-> [shape |-> arr.shape, dtype |-> ufw_dtype[arr.dtype],
                    data |-> arr.vals, int32_data |-> <<>>]]
    ELSE [err |-> "none",
          blob |-> [shape |-> arr.shape, dtype |-> ufw_dtype[arr.dtype],
                    data |-> <<>>, int32_data |-> arr.vals]]

\* arraylist_to_blobprotovector_str (78-84)
arraylist_to_blobprotovector_str(arraylist) ==
    LET bs == [i \in 1..Len(arraylist) |-> array_to_blobproto(arraylist[i])]
    IN  IF \E i \in 1..Len(bs) : bs[i].err # "none"
        THEN [err |-> "KeyError", blobs |-> <<>>]
        ELSE [err |-> "none", blobs |-> [i \in 1..Len(bs) |-> bs[i].blob]]

\* blobproto_to_array (15-32) with return_diff False: np.array(blob.data) is a
\* float64 array of the float payload; the blobs of array_to_blobproto carry no
\* legacy num/channels/height/width, so the shape is blob.shape.dim
blobproto_to_array(blob) ==
    IF Prod(blob.shape) # Len(blob.data)
    THEN [err |-> "ValueError", arr |-> [dtype |-> "float64", shape |-> <<>>, vals |-> <<>>]]
    ELSE [err |-> "none",
          arr |-> [dtype |-> "float64", shape |-> blob.shape, vals |-> blob.data]]

\* blobprotovector_str_to_arraylist (87-92)
blobprotovector_str_to_arraylist(str) ==
    LET as == [i \in 1..Len(str.blobs) |-> blobproto_to_array(str.blobs[i])]
    IN  IF \E i \in 1..Len(as) : as[i].err # "none"
        THEN [err |-> "ValueError", arrs |-> <<>>]
        ELSE [err |-> "none", arrs |-> [i \in 1..Len(as) |-> as[i].arr]]

B_f32 == [dtype |-> "float32", shape |-> <<2>>, vals |-> <<1, 2>>]

B_f16 == [dtype |-> "float16", shape |-> <<1>>, vals |-> <<3>>]

B_i32 == [dtype |-> "int32", shape |-> <<2>>, vals |-> <<1, -2>>]

B_u8 == [dtype |-> "uint8", shape |-> <<1>>, vals |-> <<200>>]

B_i8e == [dtype |-> "int8", shape |-> <<0>>, vals |-> <<>>]

B_f64 == [dtype |-> "float64", shape |-> <<1>>, vals |-> <<5>>]

BlobArrays == {B_f32, B_f16, B_i32, B_u8, B_i8e, B_f64}

InitBlob ==
    /\ InitWriter
    /\ rd = RdNew
    /\ \E l \in SeqsUpTo(BlobArrays, MaxBlobs) : bv = [BvOff EXCEPT !.phase = "in", !.inp = l]

BlobEncode ==
    /\ bv.phase = "in"
    /\ bv' = [bv EXCEPT !.phase = "enc", !.str = arraylist_to_blobprotovector_str(bv.inp)]
    /\ UNCHANGED <<wvars, hvars, rd>>

BlobDecode ==
    /\ bv.phase = "enc"
    /\ bv.str.err = "none"
    /\ bv' = [bv EXCEPT !.phase = "dec", !.out = blobprotovector_str_to_arraylist(bv.str)]
    /\ UNCHANGED <<wvars, hvars, rd>>

NextBlob == BlobEncode \/ BlobDecode

SpecBlob == InitBlob /\ [][NextBlob]_vars

(***************************************************************************)
(* Properties.                                                             *)
(***************************************************************************)
Returned == pc \in {"idle", "closed"}

\* the key and the serialized Datum of an accepted array a, the i-th overall
KeyOf(a, i) == DB_KEY_FORMAT(i - 1, a.sfx)

DatumOf(a) == SerializeDatum(array_to_datum(a.arr, a.label))

\* a has a Datum, and S holds it under a's key
Holds(S, a, i) ==
    /\ a.arr.dtype \in DOMAIN ufw_dtype
    /\ [key |-> KeyOf(a, i), value |-> DatumOf(a)] \in S

\* a has a Datum, and it is the j-th of vs
IsDatumAt(vs, j, a) ==
    /\ a.arr.dtype \in DOMAIN ufw_dtype
    /\ j \in 1..Len(vs)
    /\ vs[j] = DatumOf(a)

StrictlyIncreasing(ks) == \A i \in 1..(Len(ks) - 1) : LexLess(ks[i], ks[i + 1])

\* the ten zero-padded digits of the index followed by two underscores
IndexKey(i) == PadLeft(DecDigits(i), 10, 48) \o <<95, 95>>

\* C1: on a writer whose put calls all returned normally and used the default
\* key suffix, once the writer is closed and lmdb_data has run to exhaustion,
\* the generator has yielded exactly one record per supplied array, in put
\* order, the i-th under the key of ten digits of i followed by "__", with the
\* array that was put.
C1_ReadBackInPutOrder ==
    (/\ pc = "closed"
     /\ rd.state = "exhausted"
     /\ ~failed
     /\ \A i \in 1..Len(accepted) : accepted[i].sfx = <<>>)
    => Yielded = [i \in 1..Len(accepted) |->
                     [key |-> IndexKey(i - 1), arr |-> accepted[i].arr]]

\* the K keys and K values of a batch of K records
IsRecords(b) == Len(b.ks) = Len(b.vs)

CommittedOnce(b) ==
    \A i \in 1..Len(b.ks) :
        /\ [key |-> b.ks[i], value |-> b.vs[i]] \in store
        /\ Cardinality({r \in store : r.key = b.ks[i]}) = 1

\* C2: a _put_batch over a buffer of K records (K keys with K values) that has
\* just hit a MapFullError, whichever flush of the writer it is, leads to its
\* return, after the doubling, with every one of the K records committed: each
\* key in the store exactly once, with its own value.
C2_RetryCommitsWholeBatch ==
    \A n \in 0..(MaxCalls + MaxCloses) :
        (pc = "grow" /\ IsRecords(batch) /\ Len(batches) = n)
        ~> (/\ Len(batches) > n
            /\ IsRecords(batches[n + 1])
            /\ CommittedOnce(batches[n + 1]))

\* C2 witness: a flush of at least three records has returned after two
\* MapFullErrors, at different positions, with all of them committed.
C2_Witness ==
    /\ Returned
    /\ fulls >= 2
    /\ IsRecords(batch)
    /\ Len(batch.ks) >= 3
    /\ CommittedOnce(batch)

\* the records of a batch: the pairs its loop zips
Pairs(b) == {Zip(b.ks, b.vs)[i] : i \in 1..Len(Zip(b.ks, b.vs))}

WhollyPresent(b) == Pairs(b) \subseteq store

WhollyAbsent(b) == Pairs(b) \cap store = {}

\* C4: in every state the committed records hold each flushed batch wholly or
\* not at all, a batch whose flush has returned is wholly present, and when
\* the capacity is about to be doubled the transaction has been aborted and
\* holds no write.
C4_NoTornBatch ==
    /\ WhollyPresent(batch) \/ WhollyAbsent(batch)
    /\ Returned => WhollyPresent(batch)
    /\ \A j \in 1..Len(batches) : WhollyPresent(batches[j])
    /\ pc = "grow" => (txn = {} /\ ~txn_live)

\* C3: a put whose labels are a sequence of another length than images
\* raises, and leaves key_list, value_list and index as they were.
C3_MismatchedLabelsRejected ==
    [][(/\ calls' = calls + 1
        /\ last'.labels.kind = "seq"
        /\ Len(last'.labels.val) # last'.num)
       => (/\ last'.err # "none"
           /\ key_list' = key_list
           /\ value_list' = value_list
           /\ index' = index)]_vars

\* C5: once close has returned, the buffer is empty, the handle is closed and
\* every array accepted by a put is committed under its key; a further close
\* returns normally and leaves the committed records as they are.
C5_CloseFlushesAndIsIdempotent ==
    [][/\ pc' = "closed" =>
            (/\ key_list' = <<>>
             /\ value_list' = <<>>
             /\ ~db_open'
             /\ \A i \in 1..Len(accepted') : Holds(store', accepted'[i], i))
       /\ pc = "closed" => (pc' = "closed" /\ store' = store)]_vars

\* C6: when the iteration of lmdb_data has ended, by exhaustion or because
\* the caller stopped early, the environment it opened is closed.
C6_ReaderHandleClosed ==
    rd.state \in {"exhausted", "closed_early"} => ~rd.handle

\* C7: for a list of arrays of registered dtypes, encoding succeeds and the
\* decoded list has the same length and, at each index, an array of the same
\* dtype, shape and values.
C7_BlobVectorRoundTrip ==
    (\A i \in 1..Len(bv.inp) : bv.inp[i].dtype \in DOMAIN ufw_dtype)
    => /\ bv.phase = "enc" => bv.str.err = "none"
       /\ bv.phase = "dec" => (bv.out.err = "none" /\ bv.out.arrs = bv.inp)

\* C8: a put that returns normally appends one key and one serialized Datum
\* per array, in order, the i-th under the key of index + i, each Datum with
\* the label meant for its array (the shared label for all of them).
C8_PutAppendsOnePairPerArray ==
    [][(calls' = calls + 1 /\ last'.err = "none")
       => (/\ key_list' = key_list \o
                [i \in 1..last'.num |-> KeyOf(accepted'[index + i], index + i)]
           /\ Len(value_list') = Len(value_list) + last'.num
           /\ \A i \in 1..last'.num :
                IsDatumAt(value_list', Len(value_list) + i, accepted'[index + i])
           /\ SubSeq(value_list', 1, Len(value_list)) = value_list)]_vars

\* C9: after a put that returned normally fewer than queue_size keys and values
\* are buffered, and every pair that a flush took from the buffer is committed.
C9_FlushAtThreshold ==
    (pc = "idle" /\ calls >= 1 /\ last.err = "none")
    => /\ Len(key_list) < queue_size
       /\ Len(value_list) < queue_size
       /\ \A j \in 1..Len(batches) : Pairs(batches[j]) \subseteq store

\* C10: between writer operations key_list and value_list have the same
\* length, the j-th buffered key is the one built for the j-th buffered value,
\* the keys assigned so far are strictly increasing, and index counts them.
C10_BufferAligned ==
    Returned
    => /\ Len(key_list) = Len(value_list)
       /\ \A j \in 1..Len(value_list) : key_list[j] = vkeys[j]
       /\ StrictlyIncreasing(assigned)
       /\ index = Len(assigned)

====
